---- MODULE Spec2Model ----
(***************************************************************************)
(* Seam finding of src/resizeable_image.py: the adjacency rule nexts, the  *)
(* bottom-up cost table dynamic, the seam reconstruction dp_seam and the   *)
(* exhaustive enumeration gd_seam, as a state machine whose steps are the  *)
(* loop iterations of the code.                                            *)
(***************************************************************************)
EXTENDS Integers, Sequences, FiniteSets, TLC

\* Bounds of the model: grids of at most MaxWidth columns, MaxHeight rows and
\* MaxCells pixels, with integer pixel energies in 0..MaxEnergy.
MaxWidth == 3
MaxHeight == 3
MaxCells == 6
MaxEnergy == 2

VARIABLES
  width, height,      \* ImageMatrix.width, ImageMatrix.height
  energy,             \* the grid's energy(i, j), a function of the cell <<i, j>>
  pc,                 \* position of the running call ("idle" between calls)
  penergies,          \* the energy cache of dynamic / gd_seam
  min_energy_path,    \* dynamic's table under construction
  h, i,               \* loop counters of dynamic, dp_seam's scan and gd_seam's seeding
  cells,              \* dp_seam: the table returned by dynamic
  nodes,              \* the Node objects allocated by the running call
  path,               \* dp_seam: its Path object
  paths,              \* gd_seam: the worklist of Path objects
  k,                  \* gd_seam: position of "for path in paths"
  best_path,          \* gd_seam: index in paths of the selected Path (0: none)
  result,             \* the list under construction
  dpRet, gdRet        \* what the last dp_seam / gd_seam call returned or raised

vars == << width, height, energy, pc, penergies, min_energy_path, h, i, cells,
           nodes, path, paths, k, best_path, result, dpRet, gdRet >>

grid == << width, height, energy >>

----------------------------------------------------------------------------
\* Python values

None == 0

EmptyDict == [c \in {} |-> 0]

\* d[key] = v on a dict
Put(d, key, v) == [c \in DOMAIN d \cup {key} |-> IF c = key THEN v ELSE d[c]]

\* class Node
Node(pixel, prev, next) == [pixel |-> pixel, prev |-> prev, next |-> next]

\* class Path
Path(root, enrg, end, len) == [root |-> root, energy |-> enrg, end |-> end, len |-> len]

NoPath == Path(None, 0, None, 0)

NoRet == [outcome |-> "none", seam |-> <<>>]

Returned(s) == [outcome |-> "seam", seam |-> s]

Raised(err) == [outcome |-> err, seam |-> <<>>]

\* The pixels of the grid
Cells == {c \in (0 .. width - 1) \X (0 .. height - 1) : TRUE}

\* imagematrix's energy(i, j): the pixel's energy inside the grid; outside it the
\* external collaborator either returns some number or raises (-1).
EnergyCall(ci, cj) ==
  IF <<ci, cj>> \in Cells THEN {energy[<<ci, cj>>]} ELSE (0 .. MaxEnergy) \cup {-1}

----------------------------------------------------------------------------
\* Pure helpers of the solvers

\* nexts with the right diagonal jumping two columns
nextsJump(ci, cj) ==
  LET n0 == IF ci - 1 > 0 /\ cj + 1 < height THEN << <<ci - 1, cj + 1>> >> ELSE <<>>
      n1 == IF cj + 1 < height THEN << <<ci, cj + 1>> >> ELSE <<>>
      n2 == IF ci + 2 < width /\ cj + 1 < height THEN << <<ci + 2, cj + 1>> >> ELSE <<>>
  IN  n0 \o n1 \o n2

\* ResizeableImage.nexts
nexts(ci, cj) ==
  LET n0 == IF ci - 1 > 0 /\ cj + 1 < height THEN << <<ci - 1, cj + 1>> >> ELSE <<>>
      n1 == IF cj + 1 < height THEN << <<ci, cj + 1>> >> ELSE <<>>
      n2 == IF ci + 1 < width /\ cj + 1 < height THEN << <<ci + 1, cj + 1>> >> ELSE <<>>
  IN  n0 \o n1 \o n2

\* max in place of min
maxOf(enrgs) ==
  CHOOSE m \in {enrgs[n] : n \in 1 .. Len(enrgs)} :
    \A n \in 1 .. Len(enrgs) : enrgs[n] <= m

\* min(enrgs) of dynamic
minOf(enrgs) ==
  CHOOSE m \in {enrgs[n] : n \in 1 .. Len(enrgs)} :
    \A n \in 1 .. Len(enrgs) : m <= enrgs[n]

\* the successor loop replacing on '<=' (last minimal successor)
lastMinCell(nxts, tbl) ==
  LET RECURSIVE scan(_, _)
      scan(n, cur) ==
        IF n > Len(nxts) THEN cur
        ELSE scan(n + 1, IF tbl[nxts[n]] <= tbl[cur] THEN nxts[n] ELSE cur)
  IN  scan(2, nxts[1])

\* the loop over nxts[1:] left out: the first successor, whatever its value
firstCell(nxts, tbl) == nxts[1]

\* dp_seam's loop over nxts[1:]: the first successor of minimal table value
minCell(nxts, tbl) ==
  LET RECURSIVE scan(_, _)
      scan(n, cur) ==
        IF n > Len(nxts) THEN cur
        ELSE scan(n + 1, IF tbl[nxts[n]] < tbl[cur] THEN nxts[n] ELSE cur)
  IN  scan(2, nxts[1])

\* the last index of minimal energy
lastMinPath(ps, idxs) ==
  CHOOSE b \in idxs :
    /\ \A o \in idxs : ps[b].energy <= ps[o].energy
    /\ \A o \in idxs : ps[o].energy = ps[b].energy => o <= b

\* min(results, key=lambda p: p.energy): the first index of minimal energy
minPath(ps, idxs) ==
  CHOOSE b \in idxs :
    /\ \A o \in idxs : ps[b].energy <= ps[o].energy
    /\ \A o \in idxs : ps[o].energy = ps[b].energy => b <= o

----------------------------------------------------------------------------
\* The state after construction: any grid within the bounds, no call made

Init ==
  /\ width \in 0 .. MaxWidth
  /\ height \in 0 .. MaxHeight
  /\ width * height <= MaxCells
  /\ energy \in [(0 .. width - 1) \X (0 .. height - 1) -> 0 .. MaxEnergy]
  /\ pc = "idle"
  /\ penergies = EmptyDict
  /\ min_energy_path = EmptyDict
  /\ h = 0
  /\ i = 0
  /\ cells = EmptyDict
  /\ nodes = <<>>
  /\ path = NoPath
  /\ paths = <<>>
  /\ k = 0
  /\ best_path = 0
  /\ result = <<>>
  /\ dpRet = NoRet
  /\ gdRet = NoRet

\* best_seam(dp): a fresh invocation of dp_seam (whose first statement calls
\* dynamic) or of gd_seam, with fresh locals
best_seam(dp) ==
  /\ pc = "idle"
  /\ penergies' = EmptyDict
  /\ min_energy_path' = EmptyDict
  /\ cells' = EmptyDict
  /\ nodes' = <<>>
  /\ path' = NoPath
  /\ paths' = <<>>
  /\ k' = 1
  /\ best_path' = 0
  /\ result' = <<>>
  /\ i' = 0
  /\ IF dp
     THEN /\ pc' = "dynamic"
          /\ h' = 1
          /\ dpRet' = NoRet
          /\ UNCHANGED gdRet
     ELSE /\ pc' = IF width > 0 THEN "gd_seed" ELSE "gd_loop"
          /\ h' = 0
          /\ gdRet' = NoRet
          /\ UNCHANGED dpRet
  /\ UNCHANGED grid

----------------------------------------------------------------------------
\* dynamic

\* rows taken from the top
rowTopDown(hh) == hh - 1

\* j = self.height - h: rows are taken from the bottom up
rowOf(hh) == height - hh

\* one iteration of dynamic's loops over h and i
DynamicStep ==
  /\ pc = "dynamic"
  /\ h <= height
  /\ i < width
  /\ LET j == rowOf(h)
         c == <<i, j>>
         prevs == nexts(i, j)
     IN  \E e \in (IF c \in DOMAIN penergies THEN {penergies[c]} ELSE EnergyCall(i, j)) :
           /\ penergies' = Put(penergies, c, e)
           /\ IF \E n \in 1 .. Len(prevs) : prevs[n] \notin DOMAIN min_energy_path
              THEN \* min_energy_path[(i, j)] of a missing key
                   /\ dpRet' = Raised("KeyError")
                   /\ pc' = "idle"
                   /\ UNCHANGED << min_energy_path, h, i >>
              ELSE /\ min_energy_path' =
                        IF prevs # <<>>
                        THEN Put(min_energy_path, c,
                                 e + minOf([n \in 1 .. Len(prevs) |-> min_energy_path[prevs[n]]]))
                        ELSE Put(min_energy_path, c, e)
                   /\ i' = IF i + 1 < width THEN i + 1 ELSE 0
                   /\ h' = IF i + 1 < width THEN h ELSE h + 1
                   /\ UNCHANGED << pc, dpRet >>
  /\ UNCHANGED << grid, cells, nodes, path, paths, k, best_path, result, gdRet >>

----------------------------------------------------------------------------
\* dp_seam

\* dynamic returns; dp_seam's lines up to the scan of row 0
DpInit ==
  /\ pc = "dynamic"
  /\ h > height \/ width = 0
  /\ cells' = min_energy_path
  /\ IF <<0, 0>> \in DOMAIN min_energy_path
     THEN /\ nodes' = << Node(<<0, 0>>, None, None) >>
          /\ path' = Path(1, min_energy_path[<<0, 0>>], 1, 1)
          /\ i' = 1
          /\ pc' = "dp_scan"
          /\ UNCHANGED dpRet
     ELSE \* cells[(0, 0)] of an empty table
          /\ dpRet' = Raised("KeyError")
          /\ pc' = "idle"
          /\ UNCHANGED << nodes, path, i >>
  /\ UNCHANGED << grid, penergies, min_energy_path, h, paths, k, best_path, result, gdRet >>

\* the scan replacing on '>'
scanGreater(enrg, cur) == enrg > cur

\* if enrg < path.energy
scanLess(enrg, cur) == enrg < cur

\* one iteration of the scan of row 0
DpScan ==
  /\ pc = "dp_scan"
  /\ i < width
  /\ LET enrg == cells[<<i, 0>>]
     IN  IF scanLess(enrg, path.energy)
         THEN \* root and end are the same Node
              /\ nodes' = [nodes EXCEPT ![path.end].pixel = <<i, 0>>]
              /\ path' = [path EXCEPT !.energy = enrg]
         ELSE UNCHANGED << nodes, path >>
  /\ i' = i + 1
  /\ UNCHANGED << grid, pc, penergies, min_energy_path, h, cells, paths, k, best_path,
                  result, dpRet, gdRet >>

\* the scan ends; result.append(path.end.pixel)
DpScanEnd ==
  /\ pc = "dp_scan"
  /\ i >= width
  /\ result' = Append(result, nodes[path.end].pixel)
  /\ pc' = "dp_walk"
  /\ UNCHANGED << grid, penergies, min_energy_path, h, i, cells, nodes, path, paths, k,
                  best_path, dpRet, gdRet >>

\* one iteration of the forward walk
DpWalk ==
  /\ pc = "dp_walk"
  /\ nodes[path.end].pixel[2] # height - 1
  /\ LET nxts == nexts(nodes[path.end].pixel[1], nodes[path.end].pixel[2])
     IN  IF nxts = <<>>
         THEN \* nxts[0] of an empty list
              /\ dpRet' = Raised("IndexError")
              /\ pc' = "idle"
              /\ UNCHANGED << nodes, path, result >>
         ELSE LET iter_cell == minCell(nxts, cells)
                  new == Len(nodes) + 1
              IN  /\ nodes' = Append([nodes EXCEPT ![path.end].next = new],
                                     Node(iter_cell, path.end, None))
                  /\ path' = [path EXCEPT !.end = new, !.len = @ + 1]
                  /\ result' = Append(result, iter_cell)
                  /\ UNCHANGED << pc, dpRet >>
  /\ UNCHANGED << grid, penergies, min_energy_path, h, i, cells, paths, k, best_path, gdRet >>

\* the walk has reached row height - 1: return result
DpReturn ==
  /\ pc = "dp_walk"
  /\ nodes[path.end].pixel[2] = height - 1
  /\ dpRet' = Returned(result)
  /\ pc' = "idle"
  /\ UNCHANGED << grid, penergies, min_energy_path, h, i, cells, nodes, path, paths, k,
                  best_path, result, gdRet >>

----------------------------------------------------------------------------
\* gd_seam

\* one iteration of the seeding loop over row 0
GdSeed ==
  /\ pc = "gd_seed"
  /\ i < width
  /\ \E e \in EnergyCall(i, 0) :
       IF e = -1
       THEN \* self.energy(i, j) raises
            /\ gdRet' = Raised("EnergyError")
            /\ pc' = "idle"
            /\ UNCHANGED << nodes, paths, penergies, i >>
       ELSE LET new == Len(nodes) + 1
            IN  /\ nodes' = Append(nodes, Node(<<i, 0>>, None, None))
                /\ paths' = Append(paths, Path(new, e, new, 1))
                /\ penergies' = Put(penergies, <<i, 0>>, e)
                /\ i' = i + 1
                /\ pc' = IF i + 1 < width THEN "gd_seed" ELSE "gd_loop"
                /\ UNCHANGED gdRet
  /\ UNCHANGED << grid, min_energy_path, h, cells, path, k, best_path, result, dpRet >>

\* the body of "for (ni, nj) in nxt_cells" without new_path.len += 1
forkPathSameLen(st, p, cell) ==
  LET new == Len(st.nodes) + 1
      e == IF cell \in DOMAIN st.penergies THEN st.penergies[cell] ELSE energy[cell]
  IN  [nodes |-> Append([st.nodes EXCEPT ![p.end].next = new], Node(cell, p.end, None)),
       paths |-> Append(st.paths, Path(p.root, p.energy + e, new, p.len)),
       penergies |-> Put(st.penergies, cell, e)]

\* the body of "for (ni, nj) in nxt_cells": a copy of the Path p grown by cell
forkPath(st, p, cell) ==
  LET new == Len(st.nodes) + 1
      e == IF cell \in DOMAIN st.penergies THEN st.penergies[cell] ELSE energy[cell]
  IN  [nodes |-> Append([st.nodes EXCEPT ![p.end].next = new], Node(cell, p.end, None)),
       paths |-> Append(st.paths, Path(p.root, p.energy + e, new, p.len + 1)),
       penergies |-> Put(st.penergies, cell, e)]

RECURSIVE forkFrom(_, _, _, _)
forkFrom(st, p, nxt_cells, n) ==
  IF n > Len(nxt_cells) THEN st
  ELSE forkFrom(forkPath(st, p, nxt_cells[n]), p, nxt_cells, n + 1)

\* the loop leaving after its first successor
forkFirst(st, p, nxt_cells) == forkPath(st, p, nxt_cells[1])

\* "for (ni, nj) in nxt_cells": one new Path per successor, in order
forkAll(st, p, nxt_cells) == forkFrom(st, p, nxt_cells, 1)

\* one iteration of "for path in paths" whose end cell has successors
GdExtend ==
  /\ pc = "gd_loop"
  /\ k <= Len(paths)
  /\ LET p == paths[k]
         nxt_cells == nexts(nodes[p.end].pixel[1], nodes[p.end].pixel[2])
     IN  /\ nxt_cells # <<>>
         /\ LET st == forkAll([nodes |-> nodes, paths |-> paths, penergies |-> penergies],
                              p, nxt_cells)
            IN  /\ nodes' = st.nodes
                /\ paths' = st.paths
                /\ penergies' = st.penergies
  /\ k' = k + 1
  /\ UNCHANGED << grid, pc, min_energy_path, h, i, cells, path, best_path, result,
                  dpRet, gdRet >>

\* the iteration whose end cell has no successor: the selection of best_path
GdSelect ==
  /\ pc = "gd_loop"
  /\ k <= Len(paths)
  /\ nexts(nodes[paths[k].end].pixel[1], nodes[paths[k].end].pixel[2]) = <<>>
  /\ LET results == {n \in 1 .. Len(paths) : paths[n].len = height}
     IN  IF results = {}
         THEN \* min() of an empty list
              /\ gdRet' = Raised("ValueError")
              /\ pc' = "idle"
              /\ UNCHANGED best_path
         ELSE /\ best_path' = minPath(paths, results)
              /\ pc' = "gd_back"
              /\ UNCHANGED gdRet
  /\ result' = <<>>
  /\ UNCHANGED << grid, penergies, min_energy_path, h, i, cells, nodes, path, paths, k,
                  dpRet >>

\* one iteration of "while best_path.end is not None"
GdBack ==
  /\ pc = "gd_back"
  /\ paths[best_path].end # None
  /\ result' = << nodes[paths[best_path].end].pixel >> \o result
  /\ paths' = [paths EXCEPT ![best_path].end = nodes[paths[best_path].end].prev]
  /\ UNCHANGED << grid, pc, penergies, min_energy_path, h, i, cells, nodes, path, k,
                  best_path, dpRet, gdRet >>

\* best_path.end is None: return result
GdReturn ==
  /\ pc = "gd_back"
  /\ paths[best_path].end = None
  /\ gdRet' = Returned(result)
  /\ pc' = "idle"
  /\ UNCHANGED << grid, penergies, min_energy_path, h, i, cells, nodes, path, paths, k,
                  best_path, result, dpRet >>

\* "for path in paths" runs out without a return: gd_seam returns None
GdFallThrough ==
  /\ pc = "gd_loop"
  /\ k > Len(paths)
  /\ gdRet' = [outcome |-> "None", seam |-> <<>>]
  /\ pc' = "idle"
  /\ UNCHANGED << grid, penergies, min_energy_path, h, i, cells, nodes, path, paths, k,
                  best_path, result, dpRet >>

----------------------------------------------------------------------------

BestSeamDp == best_seam(TRUE)

BestSeamGd == best_seam(FALSE)

Next ==
  \/ BestSeamDp
  \/ BestSeamGd
  \/ DynamicStep
  \/ DpInit
  \/ DpScan
  \/ DpScanEnd
  \/ DpWalk
  \/ DpReturn
  \/ GdSeed
  \/ GdExtend
  \/ GdSelect
  \/ GdBack
  \/ GdReturn
  \/ GdFallThrough

Spec == Init /\ [][Next]_vars

----------------------------------------------------------------------------
\* Vocabulary of the properties

ValidDims == width >= 1 /\ height >= 1

Abs(x) == IF x < 0 THEN -x ELSE x

RECURSIVE SumTo(_, _)
SumTo(s, n) == IF n = 0 THEN 0 ELSE energy[s[n]] + SumTo(s, n - 1)

\* total energy of a sequence of cells of the grid
SeamEnergy(s) == SumTo(s, Len(s))

InSeq(s, x) == \E n \in 1 .. Len(s) : s[n] = x

\* the cell sequence of a column sequence: its n-th cell lies in row n - 1
CellsOf(cols) == [n \in 1 .. height |-> <<cols[n], n - 1>>]

ColumnSeqs == [1 .. height -> 0 .. width - 1]

\* every seam of the grid: one cell per row, consecutive columns at most 1 apart
AllSeams ==
  {CellsOf(cols) : cols \in {q \in ColumnSeqs :
      \A n \in 1 .. height - 1 : Abs(q[n + 1] - q[n]) <= 1}}

\* every complete path of the graph that nexts defines
DagPaths ==
  {CellsOf(cols) : cols \in {q \in ColumnSeqs :
      \A n \in 1 .. height - 1 : InSeq(nexts(q[n], n - 1), <<q[n + 1], n>>)}}

MinEnergy(S) ==
  LET es == {SeamEnergy(s) : s \in S}
  IN  CHOOSE m \in es : \A e \in es : m <= e

\* s comes before t in the lexicographic order of the column sequences
LexLeq(s, t) ==
  \/ s = t
  \/ \E n \in 1 .. Len(s) :
       /\ \A m \in 1 .. n - 1 : s[m] = t[m]
       /\ s[n][1] < t[n][1]

\* the nodes from nd back to the first node of its chain, by the prev links
RECURSIVE ChainCells(_)
ChainCells(nd) ==
  IF nd = None THEN <<>> ELSE Append(ChainCells(nodes[nd].prev), nodes[nd].pixel)

\* the chain of a Path ends at its root
RECURSIVE ChainFirst(_)
ChainFirst(nd) == IF nodes[nd].prev = None THEN nd ELSE ChainFirst(nodes[nd].prev)

SeamShape(s) ==
  /\ Len(s) = height
  /\ \A n \in 1 .. Len(s) : s[n][2] = n - 1 /\ s[n][1] \in 0 .. width - 1
  /\ \A n \in 1 .. Len(s) - 1 :
       s[n + 1][2] = s[n][2] + 1 /\ Abs(s[n + 1][1] - s[n][1]) <= 1

BothReturned == dpRet.outcome # "none" /\ gdRet.outcome # "none"

InDp == pc \in {"dynamic", "dp_scan", "dp_walk"}

InGd == pc \in {"gd_seed", "gd_loop", "gd_back"}

----------------------------------------------------------------------------
\* C1: on every grid with width >= 1 and height >= 1, dp_seam and gd_seam both
\* return a seam, and the two seams have the same total energy.
C1_SameTotalEnergy ==
  (ValidDims /\ BothReturned) =>
     /\ dpRet.outcome = "seam"
     /\ gdRet.outcome = "seam"
     /\ SeamEnergy(dpRet.seam) = SeamEnergy(gdRet.seam)

\* both solvers have returned on a grid where the paths of the graph differ in energy
C1_Witness ==
  /\ width >= 3 /\ height >= 2
  /\ dpRet.outcome = "seam" /\ gdRet.outcome = "seam"
  /\ \E s \in DagPaths : SeamEnergy(s) > SeamEnergy(dpRet.seam)

\* C2: the total energy of dp_seam's seam is the minimum over all seams of the
\* grid, a move from column 1 into column 0 included.
C2_DpMinimalOverAllSeams ==
  (ValidDims /\ dpRet.outcome = "seam") =>
     SeamEnergy(dpRet.seam) = MinEnergy(AllSeams)

\* the successors the contract of nexts describes
SpecNexts(ci, cj) ==
  LET n0 == IF ci - 1 >= 0 /\ cj + 1 < height THEN << <<ci - 1, cj + 1>> >> ELSE <<>>
      n1 == IF cj + 1 < height THEN << <<ci, cj + 1>> >> ELSE <<>>
      n2 == IF ci + 1 < width /\ cj + 1 < height THEN << <<ci + 1, cj + 1>> >> ELSE <<>>
  IN  n0 \o n1 \o n2

\* C3: for every cell, nexts returns the in-range candidates among left-diagonal,
\* straight-down and right-diagonal, in that order; nexts(1, j) contains (0, j+1).
C3_NextsContract ==
  \A c \in Cells : nexts(c[1], c[2]) = SpecNexts(c[1], c[2])

\* C4: the seam best_seam returns, with dp=True and with dp=False, has height
\* cells, the k-th in row k, every column in [0, width), consecutive cells one
\* row and at most one column apart.
C4_SeamShape ==
  ValidDims =>
     /\ dpRet.outcome # "none" => dpRet.outcome = "seam" /\ SeamShape(dpRet.seam)
     /\ gdRet.outcome # "none" => gdRet.outcome = "seam" /\ SeamShape(gdRet.seam)

\* both solvers have returned seams that change column
C4_Witness ==
  /\ width >= 3 /\ height >= 2
  /\ dpRet.outcome = "seam" /\ gdRet.outcome = "seam"
  /\ \E n \in 1 .. height - 1 : dpRet.seam[n + 1][1] # dpRet.seam[n][1]
  /\ \E n \in 1 .. height - 1 : gdRet.seam[n + 1][1] # gdRet.seam[n][1]

\* C5: on a grid of width 0 or height 0, best_seam is rejected with an explicit
\* invalid-dimensions error; it returns nothing and raises no incidental error.
C5_InvalidDimensionsRejected ==
  (width = 0 \/ height = 0) =>
     /\ dpRet.outcome \in {"none", "InvalidDimensions"}
     /\ gdRet.outcome \in {"none", "InvalidDimensions"}

\* C6: on a grid of height 1, dp_seam and gd_seam return exactly one cell (i, 0)
\* of minimal energy in row 0, and neither grows a path beyond its first node.
C6_SingleRow ==
  (height = 1 /\ width >= 1) =>
     /\ \A r \in {dpRet, gdRet} :
          r.outcome # "none" =>
            /\ r.outcome = "seam"
            /\ Len(r.seam) = 1
            /\ r.seam[1] \in Cells
            /\ r.seam[1][2] = 0
            /\ \A c \in Cells : energy[r.seam[1]] <= energy[c]
     /\ InDp => Len(nodes) <= 1 /\ path.len <= 1
     /\ InGd => Len(paths) <= width /\ \A n \in 1 .. Len(paths) : paths[n].len = 1

\* both solvers have returned on a one-row grid whose pixels differ in energy
C6_Witness ==
  /\ height = 1 /\ width >= 3
  /\ dpRet.outcome = "seam" /\ gdRet.outcome = "seam"
  /\ \E c \in Cells : energy[c] > energy[dpRet.seam[1]]
  /\ dpRet.seam[1][1] >= 1

\* the table t obeys the bottom-up recurrence on the cells it holds
Recurrence(t) ==
  \A c \in DOMAIN t :
    LET nxt == nexts(c[1], c[2])
    IN  /\ c \in Cells
        /\ \A n \in 1 .. Len(nxt) : nxt[n] \in DOMAIN t
        /\ IF nxt = <<>>
           THEN t[c] = energy[c]
           ELSE /\ \E n \in 1 .. Len(nxt) : t[c] = energy[c] + t[nxt[n]]
                /\ \A n \in 1 .. Len(nxt) : t[c] <= energy[c] + t[nxt[n]]

\* C7: the table of dynamic holds every cell of the grid and no other key, and
\* obeys the recurrence; every successor entry exists when a cell is processed.
C7_DynamicTable ==
  ValidDims =>
     /\ Recurrence(min_energy_path)
     /\ dpRet.outcome # "KeyError"
     /\ pc \in {"dp_scan", "dp_walk"} => DOMAIN cells = Cells /\ Recurrence(cells)

\* dynamic has returned a table in which a cell's entry exceeds its own energy
C7_Witness ==
  /\ pc = "dp_scan"
  /\ width >= 3 /\ height >= 2
  /\ \E c \in Cells : cells[c] > energy[c] /\ Len(nexts(c[1], c[2])) = 2 /\ c[1] = 2

----------------------------------------------------------------------------
\* gd_seam's worklist

\* the loop stands at a path whose end cell has no successors
AtSelection ==
  /\ pc = "gd_loop"
  /\ k <= Len(paths)
  /\ nexts(nodes[paths[k].end].pixel[1], nodes[paths[k].end].pixel[2]) = <<>>

Complete == {n \in 1 .. Len(paths) : paths[n].len = height}

FullyExtended(n) ==
  LET nxt == nexts(nodes[paths[n].end].pixel[1], nodes[paths[n].end].pixel[2])
  IN  \A m \in 1 .. Len(nxt) :
        \E o \in 1 .. Len(paths) :
          /\ paths[o].len = paths[n].len + 1
          /\ nodes[paths[o].end].pixel = nxt[m]
          /\ nodes[paths[o].end].prev = paths[n].end

\* C8: when the loop first reaches a path without successors, every path in
\* front of it is shorter than height and fully extended, the entries of length
\* height are exactly the complete paths of the graph, one each, and no complete
\* path is created after the selection.
C8_LevelByLevel ==
  ValidDims =>
     /\ AtSelection =>
          /\ \A n \in 1 .. k - 1 : paths[n].len < height /\ FullyExtended(n)
          /\ Complete = k .. Len(paths)
          /\ LET all == DagPaths
             IN  /\ {ChainCells(paths[n].end) : n \in Complete} = all
                 /\ Cardinality(Complete) = Cardinality(all)
     /\ pc = "gd_back" =>
          /\ Cardinality(Complete) = Cardinality(DagPaths)
          /\ paths[best_path].energy = MinEnergy(DagPaths)

\* the loop stands at the first complete path of a grid with several paths
C8_Witness ==
  /\ AtSelection
  /\ width >= 3 /\ height >= 2
  /\ k > width
  /\ Cardinality(Complete) > width

----------------------------------------------------------------------------
\* Path objects

\* len, energy and end.pixel of the Path p agree with the chain of its nodes
PathAgrees(p) ==
  /\ p.end # None
  /\ ChainFirst(p.end) = p.root
  /\ p.len = Len(ChainCells(p.end))
  /\ p.energy = SeamEnergy(ChainCells(p.end))
  /\ nodes[p.end].pixel[2] = p.len - 1

\* C9 as stated: every Path of dp_seam and of gd_seam agrees with its chain of
\* nodes in len, energy and the row of end, at every point of the solver's run.
C9_PathInvariant ==
  ValidDims =>
     /\ pc \in {"dp_scan", "dp_walk"} => PathAgrees(path)
     /\ InGd => \A n \in 1 .. Len(paths) : PathAgrees(paths[n])

\* C9 as the code has it: every Path of gd_seam agrees with its chain of nodes in
\* len, energy and the row of end until the backtracking loop consumes the end of
\* best_path (every other Path still agrees then); dp_seam's Path agrees in len
\* and the row of end, and its energy is the table value of its root cell, which
\* is the energy of its chain once the chain has reached the bottom row.
C9_PathInvariantAmended ==
  ValidDims =>
     /\ pc \in {"dp_scan", "dp_walk"} =>
          /\ path.end # None
          /\ ChainFirst(path.end) = path.root
          /\ path.len = Len(ChainCells(path.end))
          /\ nodes[path.end].pixel[2] = path.len - 1
          /\ path.energy = cells[nodes[path.root].pixel]
          /\ path.len = height /\ pc = "dp_walk" =>
               path.energy = SeamEnergy(ChainCells(path.end))
     /\ pc \in {"gd_seed", "gd_loop"} => \A n \in 1 .. Len(paths) : PathAgrees(paths[n])
     /\ pc = "gd_back" =>
          \A n \in 1 .. Len(paths) : n # best_path => PathAgrees(paths[n])

\* gd_seam holds complete paths of several nodes and dp_seam has not run yet
C9_Witness ==
  /\ pc = "gd_loop"
  /\ width >= 3 /\ height >= 2
  /\ dpRet.outcome = "none"
  /\ \E n \in 1 .. Len(paths) : paths[n].len = height /\ paths[n].energy > 0

----------------------------------------------------------------------------
\* the first of the minimum-energy paths of the graph in lexicographic order
LexFirstMinimal ==
  LET all == DagPaths
      m == MinEnergy(all)
      minimal == {s \in all : SeamEnergy(s) = m}
  IN  CHOOSE s \in minimal : \A t \in minimal : LexLeq(s, t)

\* C10: with integer energies dp_seam and gd_seam return the same cell sequence,
\* the lexicographically smallest of the minimum-energy paths of the graph.
C10_SameSeam ==
  ValidDims =>
     LET first == LexFirstMinimal
     IN  /\ dpRet.outcome = "seam" => dpRet.seam = first
         /\ gdRet.outcome = "seam" => gdRet.seam = first
         /\ BothReturned => dpRet.seam = gdRet.seam

\* both solvers have returned on a grid with several minimum-energy paths
C10_Witness ==
  /\ width >= 3 /\ height >= 2
  /\ dpRet.outcome = "seam" /\ gdRet.outcome = "seam"
  /\ \E s \in DagPaths : s # dpRet.seam /\ SeamEnergy(s) = SeamEnergy(dpRet.seam)
  /\ \E s \in DagPaths : SeamEnergy(s) > SeamEnergy(dpRet.seam)

====
